---- MODULE Spec2Model ----
(***************************************************************************)
(* Face detector: the batch program (src/main.go) and the single-image     *)
(* program (src/unnamed/part_000).  Both load an image, resize it to a     *)
(* working raster, run a cascade classifier, draw an expanded rectangle    *)
(* per detection on the working raster, crop and save each expanded        *)
(* region, and save the annotated raster.                                  *)
(*                                                                         *)
(* External collaborators (gocv, webp, the file system) are modelled by    *)
(* their outcomes: a classifier file that is present or not, an image that *)
(* reads or not, a detector that returns a sequence of rectangles, a save  *)
(* that succeeds or fails at conversion, encoding or writing.              *)
(***************************************************************************)
EXTENDS Integers, Sequences, FiniteSets, TLC

VARIABLES
    mode,         \* "batch" (src/main.go) or "single" (src/unnamed/part_000)
    pc,           \* position of the program
    cascadeOk,    \* environment: haarcascade_frontalface_default.xml loads
    mkdirOk,      \* environment: the output directory can be created
    dirReadable,  \* environment: the input directory can be read
    dirContent,   \* environment: entries of the input directory (indices of DirNames)
    files,        \* processImages: the listing ReadDir returned
    fileIdx,      \* processImages: entries of the listing already taken
    attempted,    \* input paths detectFace was called on, in call order
    callNo,       \* number of detectFace calls started
    imagePath,    \* detectFace: argument
    outputImagePath, \* detectFace: argument
    detected,     \* detectFace: the detector has returned
    faces,        \* detectFace: detector result
    faceIdx,      \* detectFace: completed iterations of the range loop
    drawn,        \* detectFace: rectangles drawn on resizedImg, in order
    regions,      \* detectFace: rectangles handed to img.Region, in order
    deferred,     \* detectFace: handles whose Close is deferred
    open,         \* native handles acquired and not released: <<call, name>>
    acquired,     \* count of native handles acquired
    released,     \* count of native handles released
    ret,          \* last return value of detectFace: [hasFace, err]
    writes,       \* ioutil.WriteFile calls that touched a file, in order
    fileErrLogs,  \* "Error processing file" lines printed by processImages
    logData,      \* processImage: has_face values printed in the JSON record
    stderr,       \* diagnostics printed to os.Stderr
    exitCode,     \* process exit status, once pc = "exit"
    xface,        \* region expander input: raw rectangle
    xcols,        \* region expander input: raster width
    xrows,        \* region expander input: raster height
    xdone,        \* region expander: the expansion has been computed
    xexpanded,    \* region expander: detectFace's expandedRect
    xcrop         \* region expander: cropAndSaveFace's cropRect

pipeVars == <<mode, pc, cascadeOk, mkdirOk, dirReadable, dirContent, files, fileIdx,
              attempted, callNo, imagePath, outputImagePath, detected, faces,
              faceIdx, drawn, regions, deferred, open, acquired, released,
              ret, writes, fileErrLogs, logData, stderr, exitCode>>
expVars == <<xface, xcols, xrows, xdone, xexpanded, xcrop>>
vars == <<pipeVars, expVars>>

---------------------------------------------------------------------------
(* Bounds *)

\* Longest detector result explored.
MaxFaces == 2
\* Largest coordinate and raster side explored for the region expander.
MaxCoord == 4

(* Program constants *)

maxWidth == 1024
maxHeight == 1024

---------------------------------------------------------------------------
(* Geometry *)

max(a, b) == IF a > b THEN a ELSE b

min(a, b) == IF a < b THEN a ELSE b

\* Go's integer division truncates toward zero.
Quot(a, b) == IF a >= 0 THEN a \div b ELSE -((-a) \div b)

mkRect(x0, y0, x1, y1) == [minX |-> x0, minY |-> y0, maxX |-> x1, maxY |-> y1]

\* image.Rect: the rectangle with the given corners, swapped where needed
\* so that Min <= Max on each axis.
Rect(x0, y0, x1, y1) ==
    mkRect(IF x0 > x1 THEN x1 ELSE x0, IF y0 > y1 THEN y1 ELSE y0,
           IF x0 > x1 THEN x0 ELSE x1, IF y0 > y1 THEN y0 ELSE y1)

Dx(r) == r.maxX - r.minX

Dy(r) == r.maxY - r.minY

\* detectFace, the rectangle it draws.
expandedRect(face, cols, rows) ==
    LET extraWidth == Quot(Dx(face), 2)
        extraHeightTop == Quot(Dy(face), 2)
        extraHeightBottom == Dy(face)
    IN  Rect(max(0, face.minX - extraWidth),
             max(0, face.minY - extraHeightTop),
             min(cols, face.maxX + extraWidth),
             min(rows, face.maxY + extraHeightBottom))

\* A cropAndSaveFace that pads the bottom like the top.
cropRect_SymmetricPad(face, cols, rows) ==
    LET extraWidth == Quot(Dx(face), 2)
        extraHeightTop == Quot(Dy(face), 2)
    IN  Rect(max(0, face.minX - extraWidth),
             max(0, face.minY - extraHeightTop),
             min(cols, face.maxX + extraWidth),
             min(rows, face.maxY + extraHeightTop))

\* A cropAndSaveFace that does not clamp.
cropRect_NoClamp(face, cols, rows) ==
    LET extraWidth == Quot(Dx(face), 2)
        extraHeightTop == Quot(Dy(face), 2)
        extraHeightBottom == Dy(face)
    IN  Rect(face.minX - extraWidth,
             face.minY - extraHeightTop,
             face.maxX + extraWidth,
             face.maxY + extraHeightBottom)

\* cropAndSaveFace, the rectangle it crops.
cropRect(face, cols, rows) ==
    LET extraWidth == Quot(Dx(face), 2)
        extraHeightTop == Quot(Dy(face), 2)
        extraHeightBottom == Dy(face)
    IN  Rect(max(0, face.minX - extraWidth),
             max(0, face.minY - extraHeightTop),
             min(cols, face.maxX + extraWidth),
             min(rows, face.maxY + extraHeightBottom))

---------------------------------------------------------------------------
(* Paths.  A path is a sequence of tokens; formatting and joining are      *)
(* concatenations, Base and Ext cut at the last separator and the last dot.*)

RECURSIVE LastIndex(_, _, _)
\* Largest k <= n with s[k] = tok, or 0.
LastIndex(s, tok, n) ==
    IF n = 0 THEN 0
    ELSE IF s[n] = tok THEN n ELSE LastIndex(s, tok, n - 1)

\* filepath.Join(dir, name)
Join(dir, name) == dir \o <<"/">> \o name

\* filepath.Base(path): the last element of the path.
Base(path) ==
    LET k == LastIndex(path, "/", Len(path))
    IN  SubSeq(path, k + 1, Len(path))

\* filepath.Ext(name): the suffix beginning at the final dot, or empty.
Ext(name) ==
    LET k == LastIndex(name, ".", Len(name))
    IN  IF k = 0 THEN <<>> ELSE SubSeq(name, k, Len(name))

\* detectFace: baseFilename, the last path element without its extension.
baseFilename(path) ==
    LET b == Base(path)
    IN  SubSeq(b, 1, Len(b) - Len(Ext(b)))

\* cropAndSaveFace of the batch program: fmt.Sprintf("%s_face_%d.webp", ...)
facePath(dir, path, index) ==
    Join(dir, baseFilename(path) \o <<"_face_", ToString(index), ".webp">>)

\* cropAndSaveFace of the single-image program: fmt.Sprintf("face_%d.webp", index)
facePathSingle(index) == <<"face_", ToString(index), ".webp">>

\* processImages: fmt.Sprintf("output_%s.webp", file.Name())
outputPath(dir, name) == Join(dir, <<"output_">> \o name \o <<".webp">>)

inputDir == <<"input_images">>

outputDir == <<"output_images">>

singleInputPath == <<"teest", ".", "jpg">>

singleOutputPath == <<"output", ".", "webp">>

---------------------------------------------------------------------------
(* Environment *)

\* Entries an input directory may hold, in the order ReadDir sorts them.
DirNames ==
    << [name |-> <<"a", ".", "jpg">>, isDir |-> FALSE],
       [name |-> <<"a", ".", "png">>, isDir |-> FALSE],
       [name |-> <<"sub">>, isDir |-> TRUE] >>

RECURSIVE SortedListing(_, _)
\* ioutil.ReadDir: the entries of the directory, sorted by file name.
SortedListing(content, k) ==
    IF k > Len(DirNames) THEN <<>>
    ELSE (IF k \in content THEN <<DirNames[k]>> ELSE <<>>)
         \o SortedListing(content, k + 1)

\* Raw rectangles the detector may report on the working raster.
SampleFaces ==
    { mkRect(100, 100, 200, 220),
      mkRect(0, 0, 40, 40),
      mkRect(900, 900, 1000, 1000),
      mkRect(1000, 900, 1020, 900) }

\* classifier.DetectMultiScaleWithParams: a sequence of distinct rectangles.
DetectorResults ==
    { fs \in UNION { [1..n -> SampleFaces] : n \in 0..MaxFaces } :
        \A j, k \in DOMAIN fs : j # k => fs[j] # fs[k] }

\* saveMatAsWebP ends in one of: success, mat.ToImage error, webp.Encode
\* error, ioutil.WriteFile error.
SaveOutcomes == {"ok", "convert", "encode", "write"}

NoErr == "nil"
ErrLoad == "error loading Haar cascade file"
ErrRead == "error reading image"
ErrFace == "error saving face image"
ErrMain == "error saving output image in WebP format"

\* resizedImg.Cols(), resizedImg.Rows(): gocv.Resize scales to exactly
\* maxWidth x maxHeight.
Cols == maxWidth

Rows == maxHeight

NoRect == mkRect(0, 0, 0, 0)

---------------------------------------------------------------------------
(* Initial states *)

ExpanderIdle ==
    /\ xface = NoRect
    /\ xcols = 0
    /\ xrows = 0
    /\ xdone = FALSE
    /\ xexpanded = NoRect
    /\ xcrop = NoRect

Init ==
    /\ mode \in {"batch", "single"}
    /\ pc = "main"
    /\ cascadeOk \in BOOLEAN
    /\ mkdirOk \in (IF mode = "batch" THEN BOOLEAN ELSE {TRUE})
    /\ dirReadable \in (IF mode = "batch" THEN BOOLEAN ELSE {TRUE})
    /\ dirContent \in (IF mode = "batch" /\ dirReadable
                         THEN SUBSET (1..Len(DirNames))
                         ELSE {{}})
    /\ files = <<>>
    /\ fileIdx = 0
    /\ attempted = <<>>
    /\ callNo = 0
    /\ imagePath = <<>>
    /\ outputImagePath = <<>>
    /\ detected = FALSE
    /\ faces = <<>>
    /\ faceIdx = 0
    /\ drawn = <<>>
    /\ regions = <<>>
    /\ deferred = <<>>
    /\ open = {}
    /\ acquired = 0
    /\ released = 0
    /\ ret = [hasFace |-> FALSE, err |-> NoErr]
    /\ writes = <<>>
    /\ fileErrLogs = 0
    /\ logData = <<>>
    /\ stderr = <<>>
    /\ exitCode = 0
    /\ ExpanderIdle

---------------------------------------------------------------------------
(* detectFace *)

envVars == <<mode, cascadeOk, mkdirOk, dirReadable, dirContent>>

Range(s) == { s[k] : k \in DOMAIN s }

\* A call of detectFace(inPath, outPath, ...).
Call(inPath, outPath) ==
    /\ pc' = "df_load"
    /\ callNo' = callNo + 1
    /\ attempted' = Append(attempted, inPath)
    /\ imagePath' = inPath
    /\ outputImagePath' = outPath
    /\ detected' = FALSE
    /\ faces' = <<>>
    /\ faceIdx' = 0
    /\ drawn' = <<>>
    /\ regions' = <<>>
    /\ deferred' = <<>>

\* A return of detectFace: the deferred Close calls run, the caller resumes.
\* op, acq and defs are the handles open, the count acquired and the deferred
\* handles at the return statement, rel the count released before it.
Return(op, acq, rel, defs, hasFace, err) ==
    /\ ret' = [hasFace |-> hasFace, err |-> err]
    /\ open' = op \ { <<callNo, h>> : h \in Range(defs) }
    /\ acquired' = acq
    /\ released' = rel + Len(defs)
    /\ deferred' = <<>>
    /\ pc' = "df_done"

\* What ioutil.WriteFile leaves behind: a whole file on success; on a write
\* error nothing, or a created file that is not whole.
WritesAfter(path, content, outcome, created) ==
    IF outcome = "ok"
    THEN Append(writes, [path |-> path, call |-> callNo, content |-> content,
                         whole |-> TRUE])
    ELSE IF outcome = "write" /\ created
    THEN Append(writes, [path |-> path, call |-> callNo, content |-> content,
                         whole |-> FALSE])
    ELSE writes

\* classifier := gocv.NewCascadeClassifier(); Load; defer classifier.Close()
DF_Load ==
    /\ pc = "df_load"
    /\ LET op == open \cup {<<callNo, "classifier">>}
       IN  IF ~cascadeOk
           THEN Return(op, acquired + 1, released, deferred, FALSE, ErrLoad)
           ELSE /\ open' = op
                /\ acquired' = acquired + 1
                /\ deferred' = Append(deferred, "classifier")
                /\ pc' = "df_read"
                /\ UNCHANGED <<released, ret>>
    /\ UNCHANGED <<envVars, files, fileIdx, attempted, callNo, imagePath,
                   outputImagePath, detected, faces, faceIdx, drawn, regions,
                   writes, fileErrLogs, logData, stderr, exitCode, expVars>>

\* img := gocv.IMRead(...); if img.Empty() return; defer img.Close()
DF_Read ==
    /\ pc = "df_read"
    /\ \E empty \in BOOLEAN :
         LET op == open \cup {<<callNo, "img">>}
         IN  IF empty
             THEN Return(op, acquired + 1, released, deferred, FALSE, ErrRead)
             ELSE /\ open' = op
                  /\ acquired' = acquired + 1
                  /\ deferred' = Append(deferred, "img")
                  /\ pc' = "df_resize"
                  /\ UNCHANGED <<released, ret>>
    /\ UNCHANGED <<envVars, files, fileIdx, attempted, callNo, imagePath,
                   outputImagePath, detected, faces, faceIdx, drawn, regions,
                   writes, fileErrLogs, logData, stderr, exitCode, expVars>>

\* resizedImg and grayImg: NewMat, defer Close, Resize, CvtColor
DF_Resize ==
    /\ pc = "df_resize"
    /\ open' = open \cup {<<callNo, "resizedImg">>, <<callNo, "grayImg">>}
    /\ acquired' = acquired + 2
    /\ deferred' = deferred \o <<"resizedImg", "grayImg">>
    /\ pc' = "df_detect"
    /\ UNCHANGED <<envVars, files, fileIdx, attempted, callNo, imagePath,
                   outputImagePath, detected, faces, faceIdx, drawn, regions,
                   released, ret, writes, fileErrLogs, logData, stderr,
                   exitCode, expVars>>

\* A detectFace that goes on to save the annotated raster with no detection.
DF_Detect_NoSkip ==
    /\ pc = "df_detect"
    /\ \E fs \in DetectorResults :
         /\ faces' = fs
         /\ detected' = TRUE
         /\ pc' = IF Len(fs) = 0 THEN "df_savemain" ELSE "df_annot"
         /\ UNCHANGED <<ret, open, acquired, released, deferred>>
    /\ UNCHANGED <<envVars, files, fileIdx, attempted, callNo, imagePath,
                   outputImagePath, faceIdx, drawn, regions, writes,
                   fileErrLogs, logData, stderr, exitCode, expVars>>

\* faces := classifier.DetectMultiScaleWithParams(...); if len(faces) == 0 return
DF_Detect ==
    /\ pc = "df_detect"
    /\ \E fs \in DetectorResults :
         /\ faces' = fs
         /\ detected' = TRUE
         /\ IF Len(fs) = 0
            THEN Return(open, acquired, released, deferred, FALSE, NoErr)
            ELSE /\ pc' = "df_annot"
                 /\ UNCHANGED <<ret, open, acquired, released, deferred>>
    /\ UNCHANGED <<envVars, files, fileIdx, attempted, callNo, imagePath,
                   outputImagePath, faceIdx, drawn, regions, writes,
                   fileErrLogs, logData, stderr, exitCode, expVars>>

\* Loop body, first half: gocv.Rectangle(&resizedImg, expandedRect, ...)
DF_Annotate ==
    /\ pc = "df_annot"
    /\ drawn' = Append(drawn, expandedRect(faces[faceIdx + 1], Cols, Rows))
    /\ pc' = "df_crop"
    /\ UNCHANGED <<envVars, files, fileIdx, attempted, callNo, imagePath,
                   outputImagePath, detected, faces, faceIdx, regions,
                   deferred, open, acquired, released, ret, writes,
                   fileErrLogs, logData, stderr, exitCode, expVars>>

\* A cropAndSaveFace that is handed the loop variable i instead of i+1.
cropPath_ZeroBased(index) ==
    IF mode = "batch" THEN facePath(outputDir, imagePath, index - 1)
    ELSE facePathSingle(index - 1)

\* The path cropAndSaveFace writes detection `index` to.
cropPath(index) ==
    IF mode = "batch" THEN facePath(outputDir, imagePath, index)
    ELSE facePathSingle(index)

\* A region view taken before the detection's own outline is drawn.
Region_BeforeOutline(rect) ==
    [kind |-> "face", region |-> rect,
     outlines |-> SubSeq(drawn, 1, Len(drawn) - 1)]

\* The pixels of img.Region(rect): the region and the outlines resizedImg
\* carries when the view is taken.
Region(rect) == [kind |-> "face", region |-> rect, outlines |-> drawn]

\* A loop body that drops the error cropAndSaveFace returns.
DF_CropSave_IgnoreErr ==
    /\ pc = "df_crop"
    /\ LET face == faces[faceIdx + 1]
           rect == cropRect(face, Cols, Rows)
       IN  /\ regions' = Append(regions, rect)
           /\ \E outcome \in SaveOutcomes, created \in BOOLEAN :
                /\ writes' = WritesAfter(cropPath(faceIdx + 1), Region(rect),
                                         outcome, created)
                /\ faceIdx' = faceIdx + 1
                /\ acquired' = acquired + 1
                /\ released' = released + 1
                /\ pc' = IF faceIdx + 1 < Len(faces)
                         THEN "df_annot" ELSE "df_savemain"
                /\ UNCHANGED <<open, deferred, ret>>
    /\ UNCHANGED <<envVars, files, fileIdx, attempted, callNo, imagePath,
                   outputImagePath, detected, faces, drawn, fileErrLogs,
                   logData, stderr, exitCode, expVars>>

\* Loop body, second half: cropAndSaveFace(resizedImg, face, i+1, ...), which
\* takes the region view, defers its Close and saves it.
DF_CropSave ==
    /\ pc = "df_crop"
    /\ LET face == faces[faceIdx + 1]
           rect == cropRect(face, Cols, Rows)
       IN  /\ regions' = Append(regions, rect)
           /\ \E outcome \in SaveOutcomes, created \in BOOLEAN :
                /\ writes' = WritesAfter(cropPath(faceIdx + 1), Region(rect),
                                         outcome, created)
                /\ IF outcome # "ok"
                   THEN /\ Return(open, acquired + 1, released + 1, deferred,
                                  FALSE, ErrFace)
                        /\ UNCHANGED faceIdx
                   ELSE /\ faceIdx' = faceIdx + 1
                        /\ acquired' = acquired + 1
                        /\ released' = released + 1
                        /\ pc' = IF faceIdx + 1 < Len(faces)
                                 THEN "df_annot" ELSE "df_savemain"
                        /\ UNCHANGED <<open, deferred, ret>>
    /\ UNCHANGED <<envVars, files, fileIdx, attempted, callNo, imagePath,
                   outputImagePath, detected, faces, drawn, fileErrLogs,
                   logData, stderr, exitCode, expVars>>

\* saveMatAsWebP(resizedImg, outputImagePath); return true, nil
DF_SaveMain ==
    /\ pc = "df_savemain"
    /\ \E outcome \in SaveOutcomes, created \in BOOLEAN :
         /\ writes' = WritesAfter(outputImagePath,
                                  [kind |-> "main",
                                   region |-> Rect(0, 0, Cols, Rows),
                                   outlines |-> drawn],
                                  outcome, created)
         /\ IF outcome # "ok"
            THEN Return(open, acquired, released, deferred, FALSE, ErrMain)
            ELSE Return(open, acquired, released, deferred, TRUE, NoErr)
    /\ UNCHANGED <<envVars, files, fileIdx, attempted, callNo, imagePath,
                   outputImagePath, detected, faces, faceIdx, drawn, regions,
                   fileErrLogs, logData, stderr, exitCode, expVars>>

---------------------------------------------------------------------------
(* The batch program: main and processImages of src/main.go *)

dfVars == <<imagePath, outputImagePath, detected, faces, faceIdx, drawn,
            regions, deferred, open, acquired, released, ret, writes>>

\* main: os.MkdirAll(outputDir); on failure a diagnostic and os.Exit(1)
Main_MkdirAll ==
    /\ mode = "batch"
    /\ pc = "main"
    /\ IF mkdirOk
       THEN /\ pc' = "pi_readdir"
            /\ UNCHANGED <<stderr, exitCode>>
       ELSE /\ stderr' = Append(stderr, "Error creating output directory")
            /\ exitCode' = 1
            /\ pc' = "exit"
    /\ UNCHANGED <<envVars, files, fileIdx, attempted, callNo, dfVars,
                   fileErrLogs, logData, expVars>>

\* processImages: ioutil.ReadDir(inputDir); on failure processImages returns
\* the error and main prints it and exits 1
PI_ReadDir ==
    /\ pc = "pi_readdir"
    /\ IF dirReadable
       THEN /\ files' = SortedListing(dirContent, 1)
            /\ pc' = "pi_loop"
            /\ UNCHANGED <<stderr, exitCode>>
       ELSE /\ stderr' = Append(stderr, "Error: failed to read input directory")
            /\ exitCode' = 1
            /\ pc' = "exit"
            /\ UNCHANGED files
    /\ UNCHANGED <<envVars, fileIdx, attempted, callNo, dfVars, fileErrLogs,
                   logData, expVars>>

\* processImages: the next entry of the range loop; a directory is skipped,
\* a file is handed to detectFace
PI_NextFile ==
    /\ pc = "pi_loop"
    /\ fileIdx < Len(files)
    /\ fileIdx' = fileIdx + 1
    /\ LET file == files[fileIdx + 1]
       IN  IF file.isDir
           THEN UNCHANGED <<pc, attempted, callNo, imagePath, outputImagePath,
                            detected, faces, faceIdx, drawn, regions, deferred>>
           ELSE Call(Join(inputDir, file.name), outputPath(outputDir, file.name))
    /\ UNCHANGED <<envVars, files, open, acquired, released, ret, writes,
                   fileErrLogs, logData, stderr, exitCode, expVars>>

\* A processImages that returns the first per-file error to main.
PI_AfterDetect_Abort ==
    /\ mode = "batch"
    /\ pc = "df_done"
    /\ IF ret.err # NoErr
       THEN /\ stderr' = Append(stderr, "Error: " \o ret.err)
            /\ exitCode' = 1
            /\ pc' = "exit"
            /\ UNCHANGED fileErrLogs
       ELSE /\ pc' = "pi_loop"
            /\ UNCHANGED <<fileErrLogs, stderr, exitCode>>
    /\ UNCHANGED <<envVars, files, fileIdx, attempted, callNo, dfVars,
                   logData, expVars>>

\* processImages: detectFace has returned; an error is printed to standard
\* output and the loop goes on
PI_AfterDetect ==
    /\ mode = "batch"
    /\ pc = "df_done"
    /\ fileErrLogs' = IF ret.err # NoErr THEN fileErrLogs + 1 ELSE fileErrLogs
    /\ pc' = "pi_loop"
    /\ UNCHANGED <<envVars, files, fileIdx, attempted, callNo, dfVars,
                   logData, stderr, exitCode, expVars>>

\* processImages: the loop is over, return nil; main returns, exit status 0
PI_Done ==
    /\ pc = "pi_loop"
    /\ fileIdx = Len(files)
    /\ exitCode' = 0
    /\ pc' = "exit"
    /\ UNCHANGED <<envVars, files, fileIdx, attempted, callNo, dfVars,
                   fileErrLogs, logData, stderr, expVars>>

---------------------------------------------------------------------------
(* The single-image program: main and processImage of src/unnamed/part_000 *)

\* main: processImage("teest.jpg", "output.webp", ...), which calls detectFace
Single_Main ==
    /\ mode = "single"
    /\ pc = "main"
    /\ Call(singleInputPath, singleOutputPath)
    /\ UNCHANGED <<envVars, files, fileIdx, open, acquired, released, ret,
                   writes, fileErrLogs, logData, stderr, exitCode, expVars>>

\* processImage: detectFace has returned; an error goes back to main, which
\* prints it and exits 1; otherwise the JSON record is printed and main returns
ProcessImage_AfterDetect ==
    /\ mode = "single"
    /\ pc = "df_done"
    /\ IF ret.err # NoErr
       THEN /\ stderr' = Append(stderr, "Error: failed to detect face")
            /\ exitCode' = 1
            /\ UNCHANGED logData
       ELSE /\ logData' = Append(logData, ret.hasFace)
            /\ exitCode' = 0
            /\ UNCHANGED stderr
    /\ pc' = "exit"
    /\ UNCHANGED <<envVars, files, fileIdx, attempted, callNo, dfVars,
                   fileErrLogs, expVars>>

---------------------------------------------------------------------------
(* Specification of the two programs *)

Next ==
    \/ Main_MkdirAll
    \/ PI_ReadDir
    \/ PI_NextFile
    \/ PI_AfterDetect
    \/ PI_Done
    \/ Single_Main
    \/ ProcessImage_AfterDetect
    \/ DF_Load
    \/ DF_Read
    \/ DF_Resize
    \/ DF_Detect
    \/ DF_Annotate
    \/ DF_CropSave
    \/ DF_SaveMain

Spec == Init /\ [][Next]_vars

---------------------------------------------------------------------------
(* The region expander on its own: every well-formed rectangle with        *)
(* coordinates in 0..MaxCoord against every raster of sides 1..MaxCoord.   *)

WellFormedRects ==
    { mkRect(x0, y0, x1, y1) : x0, y0, x1, y1 \in 0..MaxCoord }
    \cap { r \in [minX : 0..MaxCoord, minY : 0..MaxCoord,
                  maxX : 0..MaxCoord, maxY : 0..MaxCoord] :
             r.minX <= r.maxX /\ r.minY <= r.maxY }

PipelineIdle ==
    /\ mode = "batch"
    /\ pc = "idle"
    /\ cascadeOk = TRUE
    /\ mkdirOk = TRUE
    /\ dirReadable = TRUE
    /\ dirContent = {}
    /\ files = <<>>
    /\ fileIdx = 0
    /\ attempted = <<>>
    /\ callNo = 0
    /\ imagePath = <<>>
    /\ outputImagePath = <<>>
    /\ detected = FALSE
    /\ faces = <<>>
    /\ faceIdx = 0
    /\ drawn = <<>>
    /\ regions = <<>>
    /\ deferred = <<>>
    /\ open = {}
    /\ acquired = 0
    /\ released = 0
    /\ ret = [hasFace |-> FALSE, err |-> NoErr]
    /\ writes = <<>>
    /\ fileErrLogs = 0
    /\ logData = <<>>
    /\ stderr = <<>>
    /\ exitCode = 0

InitExpand ==
    /\ PipelineIdle
    /\ xface \in WellFormedRects
    /\ xcols \in 1..MaxCoord
    /\ xrows \in 1..MaxCoord
    /\ xdone = FALSE
    /\ xexpanded = NoRect
    /\ xcrop = NoRect

\* The two expansions of one raw rectangle, as detectFace and
\* cropAndSaveFace compute them.
Expand ==
    /\ ~xdone
    /\ xdone' = TRUE
    /\ xexpanded' = expandedRect(xface, xcols, xrows)
    /\ xcrop' = cropRect(xface, xcols, xrows)
    /\ UNCHANGED <<pipeVars, xface, xcols, xrows>>

NextExpand == Expand

SpecExpand == InitExpand /\ [][NextExpand]_vars

---------------------------------------------------------------------------
(* Properties *)

\* The expansion as the design states it: half the width to each side, half
\* the height above, the whole height below, clamped to the raster.
Expansion(r, W, H) ==
    LET w == r.maxX - r.minX
        h == r.maxY - r.minY
        l == r.minX - (w \div 2)
        t == r.minY - (h \div 2)
        rt == r.maxX + (w \div 2)
        b == r.maxY + h
    IN  [minX |-> IF l < 0 THEN 0 ELSE l,
         minY |-> IF t < 0 THEN 0 ELSE t,
         maxX |-> IF rt > W THEN W ELSE rt,
         maxY |-> IF b > H THEN H ELSE b]

InsideRaster(r, W, H) ==
    /\ 0 <= r.minX /\ r.minX <= r.maxX /\ r.maxX < W
    /\ 0 <= r.minY /\ r.minY <= r.maxY /\ r.maxY < H

WithinAndAround(e, r, W, H) ==
    /\ 0 <= e.minX /\ e.minX <= e.maxX /\ e.maxX <= W
    /\ 0 <= e.minY /\ e.minY <= e.maxY /\ e.maxY <= H
    /\ e.minX <= r.minX /\ r.maxX <= e.maxX
    /\ e.minY <= r.minY /\ r.maxY <= e.maxY

\* The writes of the current detectFace call, in order.
CallWrites == SelectSeq(writes, LAMBDA w : w.call = callNo)

CallFaceWrites == SelectSeq(CallWrites, LAMBDA w : w.content.kind = "face")

CallMainWrites == SelectSeq(CallWrites, LAMBDA w : w.content.kind = "main")

\* The expansions of the first n detections of the current call.
Outlines(n) == [k \in 1..n |-> Expansion(faces[k], maxWidth, maxHeight)]

C2_DrawnIsCropped ==
    /\ Len(regions) <= Len(drawn)
    /\ Len(drawn) <= Len(regions) + 1
    /\ \A k \in 1..Len(drawn) :
         drawn[k] = Expansion(faces[k], maxWidth, maxHeight)
    /\ \A k \in 1..Len(regions) :
         /\ regions[k] = drawn[k]
         /\ faces[k] = mkRect(100, 100, 200, 220)
               => regions[k] = mkRect(50, 40, 250, 340)
         /\ faces[k] = mkRect(0, 0, 40, 40)
               => regions[k] = mkRect(0, 0, 60, 80)
         /\ Dx(faces[k]) = 0
               => regions[k].minX = faces[k].minX /\ regions[k].maxX = faces[k].maxX
         /\ Dy(faces[k]) = 0
               => regions[k].minY = faces[k].minY /\ regions[k].maxY = faces[k].maxY

\* C2 witness: two detections drawn and cropped, the first the unclamped
\* scenario, the second of zero height and clamped at the right edge.
C2_Witness ==
    /\ Len(regions) = 2
    /\ faces[1] = mkRect(100, 100, 200, 220)
    /\ Dy(faces[2]) = 0
    /\ regions[2].maxX = maxWidth

\* The per-face files of the current call are exactly one whole file per
\* detection, named <baseFilename>_face_<i> for i = 1..N in detector order,
\* file i holding the crop of detection i.
ExactlyNFaceFiles ==
    /\ Len(CallFaceWrites) = Len(faces)
    /\ \A k \in 1..Len(CallFaceWrites) :
         /\ CallFaceWrites[k].whole
         /\ CallFaceWrites[k].path = facePath(outputDir, imagePath, k)
         /\ CallFaceWrites[k].content.region
               = Expansion(faces[k], maxWidth, maxHeight)

C4_ZeroDetections ==
    /\ (pc = "df_done" /\ detected /\ faces = <<>>) =>
          /\ drawn = <<>>
          /\ regions = <<>>
          /\ CallWrites = <<>>
          /\ ret = [hasFace |-> FALSE, err |-> NoErr]
    /\ (mode = "single" /\ pc = "exit" /\ detected /\ faces = <<>>) =>
          /\ logData = <<FALSE>>
          /\ stderr = <<>>
          /\ exitCode = 0
          /\ writes = <<>>

\* C4 witness: the single-image program has exited after a detection of zero
\* rectangles.
C4_Witness ==
    mode = "single" /\ pc = "exit" /\ detected /\ faces = <<>> /\ callNo = 1

\* The input paths of the non-directory entries, in enumeration order.
ExpectedInputs ==
    LET fs == SelectSeq(SortedListing(dirContent, 1), LAMBDA e : ~e.isDir)
    IN  [k \in 1..Len(fs) |-> <<"input_images", "/">> \o fs[k].name]

\* C5: in the batch driver a per-file failure never aborts the batch: every
\* non-directory entry is attempted exactly once in enumeration order, there
\* is no retry, processImages returns no error and the exit status is 0; an
\* empty directory ends with nothing processed and exit status 0.
C5_BatchNeverAborts ==
    (mode = "batch" /\ mkdirOk /\ dirReadable) =>
        /\ Len(attempted) <= Len(ExpectedInputs)
        /\ attempted = SubSeq(ExpectedInputs, 1, Len(attempted))
        /\ callNo = Len(attempted)
        /\ pc = "exit" =>
              /\ attempted = ExpectedInputs
              /\ exitCode = 0
              /\ stderr = <<>>

\* C5 witness: a batch of two files has ended, the first having failed and
\* the second having succeeded.
C5_Witness ==
    /\ mode = "batch" /\ pc = "exit"
    /\ Len(attempted) = 2
    /\ fileErrLogs = 1
    /\ ret.hasFace

\* C6: a classifier file that cannot be loaded is fatal: a diagnostic on the
\* error stream and a non-zero exit status.
C6_MissingClassifierIsFatal ==
    (pc = "exit" /\ ~cascadeOk /\ callNo > 0) =>
        /\ exitCode # 0
        /\ stderr # <<>>

\* C7: when detectFace has returned, every native handle it acquired has
\* been released, on every exit path.
C7_HandlesReleased ==
    pc = "df_done" => (acquired = released /\ open = {})

\* C8: no output path is written more than once in a run: no two completed
\* writes, of one input or of two, go to the same path.
C8_WriteOnce ==
    \A j, k \in DOMAIN writes :
        (j # k /\ writes[j].whole /\ writes[k].whole)
            => writes[j].path # writes[k].path

\* C9 as stated: whenever detectFace returns an error, no per-face file and
\* no annotated file of that input has been written.
C9_NoOutputOnError ==
    (pc = "df_done" /\ ret.err # NoErr) =>
        \A k \in DOMAIN CallWrites : ~CallWrites[k].whole

\* C9 amended: a classifier-load or image-read error comes before any write;
\* a per-face save error for detection k comes after the files of detections
\* 1..k-1 are written and before the annotated file; an annotated-save error
\* comes after all N per-face files are written.
C9_OutputsBeforeError ==
    pc = "df_done" =>
        /\ ret.err \in {ErrLoad, ErrRead} => CallWrites = <<>>
        /\ ret.err = ErrFace =>
              /\ faceIdx < Len(faces)
              /\ Len(SelectSeq(CallFaceWrites, LAMBDA w : w.whole)) = faceIdx
              /\ \A k \in 1..faceIdx : CallFaceWrites[k].whole
              /\ CallMainWrites = <<>>
        /\ ret.err = ErrMain =>
              /\ faceIdx = Len(faces)
              /\ Len(SelectSeq(CallFaceWrites, LAMBDA w : w.whole)) = Len(faces)
              /\ \A k \in DOMAIN CallMainWrites : ~CallMainWrites[k].whole

\* C9 witness: detectFace returns the annotated-save error with both per-face
\* files of the input on disk.
C9_Witness ==
    /\ pc = "df_done"
    /\ ret.err = ErrMain
    /\ Len(faces) = 2
    /\ Len(SelectSeq(CallFaceWrites, LAMBDA w : w.whole)) = 2

\* C10: the steps are ordered annotate(1), crop+save(1), ..., annotate(N),
\* crop+save(N), save of the annotated raster: the crop of detection i shows
\* exactly the outlines of detections 1..i, and the annotated raster is
\* written only after all N crops were saved and carries all N outlines.
C10_AnnotateThenCrop ==
    /\ pc = "df_annot" => (Len(drawn) = faceIdx /\ Len(regions) = faceIdx)
    /\ pc = "df_crop" => (Len(drawn) = faceIdx + 1 /\ Len(regions) = faceIdx)
    /\ pc = "df_savemain" =>
          (faceIdx = Len(faces) /\ Len(drawn) = faceIdx /\ Len(regions) = faceIdx)
    /\ \A k \in DOMAIN CallFaceWrites :
          /\ CallFaceWrites[k].content.region = Outlines(k)[k]
          /\ CallFaceWrites[k].content.outlines = Outlines(k)
    /\ \A k \in DOMAIN CallMainWrites :
          /\ CallMainWrites[k].content.outlines = Outlines(Len(faces))
          /\ Len(faces) > 0
          /\ Len(CallFaceWrites) = Len(faces)
          /\ \A j \in DOMAIN CallFaceWrites : CallFaceWrites[j].whole
          /\ CallWrites = CallFaceWrites \o CallMainWrites

\* C10 witness: the annotated raster of an input with two detections has
\* been written after its two crops.
C10_Witness ==
    /\ pc = "df_done"
    /\ Len(faces) = 2
    /\ Len(CallMainWrites) = 1
    /\ CallMainWrites[1].whole
    /\ Len(CallWrites) = 3

====
